---------------------------- MODULE Spec2Model ----------------------------
(***************************************************************************)
(* Model of the Hashmap class of the Bakery key-value store: a chained     *)
(* hash table with an FNV-style hasher and load-factor driven resizing,    *)
(* and of the CentralisedStorage facade that keeps a key cache over it.    *)
(* Keys are strings, modelled as the sequence of their UTF-16 code units.  *)
(* 32-bit quantities are kept as pairs <<hi, lo>> of 16-bit halves, and    *)
(* the product of the hasher is computed digit by digit in base 256, so    *)
(* that no intermediate value leaves the range of the model checker's      *)
(* integers.                                                               *)
(***************************************************************************)
EXTENDS Integers, Sequences, FiniteSets

(***************************************************************************)
(* Bounds of the model.                                                    *)
(***************************************************************************)
NumKeys == 6

NumValues == 2

(***************************************************************************)
(* The keys the operations are called with, in the order in which the      *)
(* bound NumKeys admits them: "a", "b", "c", "ab", "cb", "f", "ca", "d".   *)
(***************************************************************************)
KeyUniverse ==
    << <<97>>, <<98>>, <<99>>, <<97, 98>>, <<99, 98>>, <<102>>, <<99, 97>>,
       <<100>> >>

Keys == { KeyUniverse[i] : i \in 1..NumKeys }

Values == 1..NumValues

(***************************************************************************)
(* Hashmap.#hash                                                           *)
(***************************************************************************)
Pow2(n) == IF n = 0 THEN 1 ELSE IF n = 1 THEN 2 ELSE IF n = 2 THEN 4 ELSE 8

RECURSIVE Xor16(_, _, _)
\* bitwise exclusive or of the n low bits of a and b
Xor16(a, b, n) ==
    IF n = 0 THEN 0
    ELSE (((a % 2) + (b % 2)) % 2) + 2 * Xor16(a \div 2, b \div 2, n - 1)

\* FNV_OFFSET_BASIS = 2166136261 = 0x811C9DC5
FNV_OFFSET_BASIS == <<33052, 40389>>

\* FNV_PRIME = 16777619 = 0x01000193, little-endian base-256 digits
FNV_PRIME == <<147, 1, 0, 1>>

\* hash ^= key.charCodeAt(i): ToInt32 of both operands, exclusive or.  The
\* code unit is below 2^16, so only the low half changes; the result is the
\* signed 32-bit integer whose two's complement pattern is returned.
XorUnit(h, c) == <<h[1], Xor16(h[2], c, 16)>>

\* the sign of the int32 with bit pattern h
IsNegative(h) == h[1] >= 32768

\* the magnitude of the int32 with bit pattern h, as 4 base-256 digits
\* (little-endian); 2^32 - h for a negative one
Magnitude(h) ==
    LET lo == IF IsNegative(h) THEN (65536 - h[2]) % 65536 ELSE h[2]
        hi == IF IsNegative(h)
                 THEN (IF h[2] = 0 THEN 65536 - h[1] ELSE 65535 - h[1])
                 ELSE h[1]
    IN  <<lo % 256, lo \div 256, hi % 256, hi \div 256>>

\* column k (0-based) of the schoolbook product of two 4-digit numbers
Column(x, y, k) ==
    LET idx == { i \in 0..3 : k - i \in 0..3 }
        RECURSIVE Sum(_)
        Sum(S) == IF S = {} THEN 0
                  ELSE LET i == CHOOSE j \in S : TRUE
                       IN  x[i + 1] * y[k - i + 1] + Sum(S \ {i})
    IN  Sum(idx)

RECURSIVE MulDigits(_, _, _, _)
\* the digits k.. of the exact product x * y, with carry coming in
MulDigits(x, y, k, carry) ==
    IF k = 8 THEN <<>>
    ELSE LET t == Column(x, y, k) + carry
         IN  <<t % 256>> \o MulDigits(x, y, k + 1, t \div 256)

\* hash *= FNV_PRIME is a multiplication of IEEE-754 doubles: the exact
\* product is rounded to 53 significant bits, ties to even.  DroppedBits is
\* the number of low bits of the exact product p that do not fit.
DroppedBits(p) ==
    LET top == p[7] + 256 * p[8]    \* bits 48.. of the product
    IN  IF top < 32 THEN 0 ELSE IF top < 64 THEN 1 ELSE IF top < 128 THEN 2 ELSE 3

\* the low 32 bits of the magnitude of the rounded product, as <<hi, lo>>
RoundedLow32(p) ==
    LET d    == DroppedBits(p)
        unit == Pow2(d)
        lo16 == p[1] + 256 * p[2]
        hi16 == p[3] + 256 * p[4]
        rest == lo16 % unit
        kept == (lo16 \div unit) % 2
        up   == d > 0 /\ (2 * rest > unit \/ (2 * rest = unit /\ kept = 1))
        lo2  == lo16 - rest + (IF up THEN unit ELSE 0)
    IN  <<(hi16 + lo2 \div 65536) % 65536, lo2 % 65536>>

\* two's complement negation modulo 2^32
Negate32(h) ==
    IF h[2] = 0 THEN <<(65536 - h[1]) % 65536, 0>>
    ELSE <<65535 - h[1], 65536 - h[2]>>

\* hash *= FNV_PRIME; hash = hash >>> 0
MulPrime(h) ==
    LET r == RoundedLow32(MulDigits(Magnitude(h), FNV_PRIME, 0, 0))
    IN  IF IsNegative(h) THEN Negate32(r) ELSE r

RECURSIVE HashLoop(_, _, _)
\* the loop of #hash from index i (1-based) on
HashLoop(key, i, h) ==
    IF i > Len(key) THEN h
    ELSE HashLoop(key, i + 1, MulPrime(XorUnit(h, key[i])))

\* the 32-bit value #hash holds before its final modulo
hash32(key) == HashLoop(key, 1, FNV_OFFSET_BASIS)

Abs(n) == IF n < 0 THEN 0 - n ELSE n

\* h % size for a non-negative h: the sign of the result is that of h
Mod32(h, n) ==
    LET m == Abs(n)
    IN  (((h[1] % m) * (65536 % m)) + (h[2] % m)) % m

\* hash32 of every key of the model, computed once
HashOf == [ k \in { KeyUniverse[i] : i \in 1..Len(KeyUniverse) } |-> hash32(k) ]

\* Hashmap.#hash: the bucket index of key in a table of the given size
hash(key, size) == Mod32(HashOf[key], size)

(***************************************************************************)
(* The table.  A table value is a record of the private fields of a        *)
(* Hashmap, with the flag threw set once a statement has raised an error   *)
(* (the call is then abandoned with the fields as they are) and the number *)
(* resizes of #resize calls made since the public call began.  The bucket  *)
(* array is a JavaScript array: an element is a chain of entries           *)
(* <<key, value>> or a hole (an index below the length that was never      *)
(* assigned, which reads as undefined).                                    *)
(***************************************************************************)
initialSize == 4

\* the result of getItem when the key is absent; values are 1..NumValues
Null == 0

Hole == [hole |-> TRUE, items |-> <<>>]

Chain(s) == [hole |-> FALSE, items |-> s]

\* count / size > num / den, as the quotient of two numbers
RatioAbove(c, s, num, den) ==
    IF s > 0 THEN den * c > num * s ELSE den * c < num * s

\* count / size < num / den
RatioBelow(c, s, num, den) ==
    IF s > 0 THEN den * c < num * s ELSE den * c > num * s

\* Hashmap.#new: count = 0 and a fresh array of `n` empty chains (of none
\* when n is negative), which every caller assigns to #buckets
new(t, n) ==
    [t EXCEPT !.count = 0,
              !.buckets = [i \in 1..(IF n > 0 THEN n ELSE 0) |-> Chain(<<>>)]]

\* the 1-based position of the bucket of key
BucketIndex(t, key) == hash(key, t.size) + 1

\* the body of #getBucket for the bucket at position i: an undefined element
\* is replaced by an empty chain, which lengthens the array (leaving holes
\* between its old end and i) when i is beyond its end
EnsureBucket(t, i) ==
    IF i <= Len(t.buckets)
      THEN IF t.buckets[i].hole
             THEN [t EXCEPT !.buckets[i] = Chain(<<>>)]
             ELSE t
      ELSE [t EXCEPT !.buckets =
               @ \o [j \in 1..(i - Len(@)) |->
                        IF j = i - Len(@) THEN Chain(<<>>) ELSE Hole]]

\* Hashmap.#getBucket: the table after the call; the bucket it returns is
\* the element at BucketIndex
getBucket(t, key) == EnsureBucket(t, BucketIndex(t, key))

\* the positions of key in a chain
Positions(items, key) == { p \in 1..Len(items) : items[p][1] = key }

Min(S) == CHOOSE x \in S : \A y \in S : x <= y

\* the first position of key in a chain, where the scanning loops stop
FirstPosition(items, key) == Min(Positions(items, key))

\* the key is in a chain
InChain(items, key) == Positions(items, key) # {}

RECURSIVE setItemT(_, _, _)
RECURSIVE resize(_, _)
RECURSIVE ReinsertBuckets(_, _, _)
RECURSIVE ReinsertEntries(_, _, _)

\* #checkLoadFactor with the threshold 0.75 in place of 0.7
checkLoadFactorLate(t) ==
    IF RatioAbove(t.count, t.size, 3, 4) THEN resize(t, t.size * 2) ELSE t

\* Hashmap.#checkLoadFactor
checkLoadFactor(t) ==
    IF RatioAbove(t.count, t.size, 7, 10) THEN resize(t, t.size * 2) ELSE t

\* #checkUnderLoadFactor without its guard size > 10
checkUnderLoadFactorNoFloor(t) ==
    IF RatioBelow(t.count, t.size, 4, 10)
      THEN resize(t, (t.size + 1) \div 2)
      ELSE t

\* Hashmap.#checkUnderLoadFactor; Math.ceil(size * 0.5) is (size + 1) \div 2
checkUnderLoadFactor(t) ==
    IF RatioBelow(t.count, t.size, 4, 10) /\ t.size > 10
      THEN resize(t, (t.size + 1) \div 2)
      ELSE t

\* setItem without its scan for the key: the entry is always pushed
SetInBucketAppends(t, i, keyName, keyValue) ==
    checkLoadFactor(
      [t EXCEPT !.buckets[i].items = Append(@, <<keyName, keyValue>>),
                !.count = @ + 1])

\* setItem without its call of #checkLoadFactor
SetInBucketNoCheck(t, i, keyName, keyValue) ==
    IF InChain(t.buckets[i].items, keyName)
      THEN [t EXCEPT !.buckets[i].items[FirstPosition(t.buckets[i].items, keyName)] =
                        <<keyName, keyValue>>]
      ELSE [t EXCEPT !.buckets[i].items = Append(@, <<keyName, keyValue>>),
                     !.count = @ + 1]

\* the body of setItem once #getBucket has returned the bucket at position i
SetInBucket(t, i, keyName, keyValue) ==
    IF InChain(t.buckets[i].items, keyName)
      THEN [t EXCEPT !.buckets[i].items[FirstPosition(t.buckets[i].items, keyName)] =
                        <<keyName, keyValue>>]
      ELSE checkLoadFactor(
             [t EXCEPT !.buckets[i].items = Append(@, <<keyName, keyValue>>),
                       !.count = @ + 1])

\* Hashmap.setItem on a table value
setItemT(t, keyName, keyValue) ==
    SetInBucket(getBucket(t, keyName), BucketIndex(t, keyName), keyName, keyValue)

\* the inner loop of #resize: for (const [key, value] of bucket)
ReinsertEntries(t, items, j) ==
    IF t.threw \/ j > Len(items) THEN t
    ELSE ReinsertEntries(setItemT(t, items[j][1], items[j][2]), items, j + 1)

\* the outer loop of #resize: for (const bucket of oldBuckets).  A hole is
\* iterated as undefined, and iterating undefined raises a TypeError.
ReinsertBuckets(t, old, i) ==
    IF t.threw \/ i > Len(old) THEN t
    ELSE IF old[i].hole THEN [t EXCEPT !.threw = TRUE]
    ELSE ReinsertBuckets(ReinsertEntries(t, old[i].items, 1), old, i + 1)

\* #resize that assigns #size and leaves the buckets as they are
resizeWithoutRehash(t, newSize) == [t EXCEPT !.size = newSize]

\* #resize that re-inserts into the old bucket array instead of a fresh one
resizeKeepsOldBuckets(t, newSize) ==
    ReinsertBuckets([t EXCEPT !.size = newSize, !.resizes = @ + 1],
                    t.buckets, 1)

\* Hashmap.#resize
resize(t, newSize) ==
    ReinsertBuckets(
      new([t EXCEPT !.size = newSize, !.resizes = @ + 1], newSize),
      t.buckets, 1)

\* the body of getItem once #getBucket has returned the bucket at position i
GetInBucket(t, i, keyName) ==
    [table |-> t,
     ret   |-> IF InChain(t.buckets[i].items, keyName)
                 THEN t.buckets[i].items[FirstPosition(t.buckets[i].items, keyName)][2]
                 ELSE Null]

\* Hashmap.getItem: the table after the call and the value returned
getItemT(t, keyName) ==
    GetInBucket(getBucket(t, keyName), BucketIndex(t, keyName), keyName)

\* a sequence without its element at position p: bucket.splice(p, 1)
Splice(s, p) == [j \in 1..(Len(s) - 1) |-> IF j < p THEN s[j] ELSE s[j + 1]]

\* removeItem without its splice: the entry stays in the chain
RemoveInBucketKeepsEntry(t, i, keyName) ==
    IF InChain(t.buckets[i].items, keyName)
      THEN checkUnderLoadFactor([t EXCEPT !.count = @ - 1])
      ELSE t

\* removeItem without its decrement of #count
RemoveInBucketKeepsCount(t, i, keyName) ==
    IF InChain(t.buckets[i].items, keyName)
      THEN checkUnderLoadFactor(
             [t EXCEPT !.buckets[i].items = Splice(@, FirstPosition(@, keyName))])
      ELSE t

\* the body of removeItem once #getBucket has returned the bucket at i
RemoveInBucket(t, i, keyName) ==
    IF InChain(t.buckets[i].items, keyName)
      THEN checkUnderLoadFactor(
             [t EXCEPT !.buckets[i].items = Splice(@, FirstPosition(@, keyName)),
                       !.count = @ - 1])
      ELSE t

\* Hashmap.removeItem on a table value
removeItemT(t, keyName) ==
    RemoveInBucket(getBucket(t, keyName), BucketIndex(t, keyName), keyName)

\* Hashmap.clear: a fresh array of initialSize chains; #size is not assigned
clearT(t) == new(t, initialSize)

\* this.getItem(keyName) !== null
NotNull(g) == [table |-> g.table, ret |-> g.ret # Null]

\* Hashmap.keyExists: the table after the call and the boolean returned
keyExistsT(t, keyName) == NotNull(getItemT(t, keyName))

RECURSIVE Flat(_, _)
\* Array.prototype.flat over the bucket array from position i: holes are
\* skipped, chains are concatenated
Flat(bs, i) ==
    IF i > Len(bs) THEN <<>>
    ELSE (IF bs[i].hole THEN <<>> ELSE bs[i].items) \o Flat(bs, i + 1)

\* .map(([key]) => key)
MapKey(es) == [j \in 1..Len(es) |-> es[j][1]]

\* Hashmap.keys: the sequence returned
keysT(t) == MapKey(Flat(t.buckets, 1))

\* size || initialSize: initialSize for no argument (<<>>) and for 0
SizeOrInitial(arg) ==
    IF arg = <<>> THEN initialSize
    ELSE IF arg[1] = 0 THEN initialSize ELSE arg[1]

\* Hashmap.constructor; arg is <<>> for no argument and <<n>> for size n
constructor(arg) ==
    new([size |-> SizeOrInitial(arg), buckets |-> <<>>, count |-> 0,
         threw |-> FALSE, resizes |-> 0],
        SizeOrInitial(arg))

(***************************************************************************)
(* The state: the fields of one Hashmap, the argument it was constructed   *)
(* with, and the last call made on it: the operation, whether it raised an *)
(* error, whether the key of a setItem or removeItem was stored before it, *)
(* size and count before it, and how many times it ran #resize.  What a    *)
(* call returns is a function of the table it leaves (getItemT,            *)
(* keyExistsT, keysT) and is not kept.  keyCache is the #keyCache of the    *)
(* CentralisedStorage in front of the Hashmap; it stays empty when the     *)
(* Hashmap is called directly.                                             *)
(***************************************************************************)
VARIABLES size, buckets, count, ctor, call, keyCache

vars == <<size, buckets, count, ctor, call, keyCache>>

\* the table of the current state
Table ==
    [size |-> size, buckets |-> buckets, count |-> count, threw |-> FALSE,
     resizes |-> 0]

\* the key is stored in the table of the current state
Stored(k) == \E i \in 1..Len(buckets) : InChain(buckets[i].items, k)

\* the call `op` leaves the table t
Commit(t, op, found) ==
    /\ size' = t.size
    /\ buckets' = t.buckets
    /\ count' = t.count
    /\ call' = [op |-> op, threw |-> t.threw, found |-> found,
                preSize |-> size, preCount |-> count, resizes |-> t.resizes]
    /\ UNCHANGED ctor

\* the call `op` leaves the table g.table and returns g.ret
CommitRet(g, op) == Commit(g.table, op, FALSE)

\* new Hashmap(arg) has returned the table t
ConstructedAs(t, arg) ==
    /\ size = t.size
    /\ buckets = t.buckets
    /\ count = t.count
    /\ ctor = arg
    /\ keyCache = {}
    /\ call = [op |-> "constructor", threw |-> t.threw, found |-> FALSE,
               preSize |-> t.size, preCount |-> 0, resizes |-> 0]

Constructed(arg) == ConstructedAs(constructor(arg), arg)

setItem(k, v) ==
    Commit(setItemT(Table, k, v), "setItem", Stored(k)) /\ UNCHANGED keyCache

getItem(k) == CommitRet(getItemT(Table, k), "getItem") /\ UNCHANGED keyCache

removeItem(k) ==
    Commit(removeItemT(Table, k), "removeItem", Stored(k)) /\ UNCHANGED keyCache

clear == Commit(clearT(Table), "clear", FALSE) /\ UNCHANGED keyCache

keyExists(k) ==
    CommitRet(keyExistsT(Table, k), "keyExists") /\ UNCHANGED keyCache

\* keys reads #buckets and assigns nothing
keys == Commit(Table, "keys", FALSE) /\ UNCHANGED keyCache

Init == Constructed(<<>>)

Next ==
    \/ \E k \in Keys, v \in Values : setItem(k, v)
    \/ \E k \in Keys : getItem(k)
    \/ \E k \in Keys : removeItem(k)
    \/ clear
    \/ \E k \in Keys : keyExists(k)
    \/ keys

Spec == Init /\ [][Next]_vars

(***************************************************************************)
(* The same operations on a table constructed with any of a few size       *)
(* arguments: zero, a negative size, a positive size.                      *)
(***************************************************************************)
CtorArgs == { <<0>>, <<-8>>, <<13>> }

InitCtor == \E arg \in CtorArgs : Constructed(arg)

SpecCtor == InitCtor /\ [][Next]_vars

(***************************************************************************)
(* CentralisedStorage over a Hashmap (storage type "hashmap"): every call  *)
(* goes through the facade, which keeps the set #keyCache of the keys it   *)
(* has set.  A statement after a backend call that raised is not run.      *)
(***************************************************************************)

\* the backend call `op` leaves the table t; the statement on #keyCache that
\* follows it in the facade leaves the cache `cache`
CommitCached(t, op, found, cache) ==
    /\ Commit(t, op, found)
    /\ keyCache' = IF t.threw THEN keyCache ELSE cache

\* a facade call that does not call the backend
CacheOnly(op) == Commit(Table, op, FALSE) /\ UNCHANGED keyCache

CentralisedStorage_setItem(k, v) ==
    CommitCached(setItemT(Table, k, v), "setItem", Stored(k), keyCache \cup {k})

CentralisedStorage_getItem(k) ==
    IF k \in keyCache
      THEN CommitRet(getItemT(Table, k), "getItem") /\ UNCHANGED keyCache
      ELSE CacheOnly("getItem")

CentralisedStorage_removeItem(k) ==
    IF k \in keyCache
      THEN CommitCached(removeItemT(Table, k), "removeItem", Stored(k),
                        keyCache \ {k})
      ELSE CacheOnly("removeItem")

CentralisedStorage_clear == CommitCached(clearT(Table), "clear", FALSE, {})

CentralisedStorage_keyExists(k) == CacheOnly("keyExists")

CentralisedStorage_keys == CacheOnly("keys")

\* what CentralisedStorage.getItem returns in the current state
CentralisedStorage_getItemRet(k) ==
    IF k \in keyCache THEN getItemT(Table, k).ret ELSE Null

NextFacade ==
    \/ \E k \in Keys, v \in Values : CentralisedStorage_setItem(k, v)
    \/ \E k \in Keys : CentralisedStorage_getItem(k)
    \/ \E k \in Keys : CentralisedStorage_removeItem(k)
    \/ CentralisedStorage_clear
    \/ \E k \in Keys : CentralisedStorage_keyExists(k)
    \/ CentralisedStorage_keys

SpecFacade == Init /\ [][NextFacade]_vars

(***************************************************************************)
(* Properties.                                                             *)
(***************************************************************************)

\* the keys keys() returns in the current state, as a set
KeySet == { keysT(Table)[j] : j \in 1..Len(keysT(Table)) }

\* C1: in every reachable state, for every key k and value v, getItem(k)
\* called right after setItem(k, v) returns v, also when the setItem grows
\* the table.
C1_RoundTrip ==
    [][call'.op = "setItem" =>
         \A k \in Keys, v \in Values :
            setItem(k, v) => getItemT(Table', k).ret = v]_vars

\* C2: in every reachable state, for every key k, right after removeItem(k)
\* getItem(k) returns null and keyExists(k) returns false, also when the
\* removal shrinks the table.
C2_Deletion ==
    [][call'.op = "removeItem" =>
         \A k \in Keys :
            removeItem(k) => /\ getItemT(Table', k).ret = Null
                             /\ ~keyExistsT(Table', k).ret]_vars

\* C2 witness: a removal of a stored key has shrunk the table from 16 to 8
C2_Witness ==
    /\ call.op = "removeItem" /\ call.found /\ ~call.threw
    /\ call.preSize = 16 /\ size = 8 /\ count = 5

\* C3: in every reachable state keys() returns exactly the keys for which
\* getItem does not return null, each of them once.
C3_KeysComplete ==
    /\ \A k \in Keys : (getItemT(Table, k).ret # Null) <=> (k \in KeySet)
    /\ KeySet \subseteq Keys
    /\ Cardinality(KeySet) = Len(keysT(Table))

\* C3 witness: five keys are enumerated after a grow to 16 and a shrink to 8
C3_Witness ==
    /\ call.op = "removeItem" /\ call.preSize = 16 /\ size = 8
    /\ Cardinality(KeySet) = 5

\* C4: after clear() the table is empty, count is 0 and size is the initial
\* size 4, whatever the size was before.
C4_ClearResets ==
    call.op = "clear" =>
        /\ size = 4
        /\ count = 0
        /\ Len(buckets) = 4
        /\ keysT(Table) = <<>>

\* C5: from a table constructed with the default size, no call of setItem,
\* getItem, removeItem, clear, keyExists or keys raises an error.
C5_Total == ~call.threw

\* C6: constructing a Hashmap with size zero or negative raises an error at
\* construction, so no table with size <= 0 is ever operated on.
C6_InvalidSizeRejected ==
    (ctor # <<>> /\ ctor[1] <= 0) => (call.op = "constructor" /\ call.threw)

\* C7: setItem(k, v2) on a stored key k leaves count, size and the place of
\* every entry unchanged (no rebuild), and getItem(k) returns v2 after it.
C7_Overwrite ==
    [][(call'.op = "setItem" /\ call'.found) =>
         \A k \in Keys, v \in Values :
            (Stored(k) /\ setItem(k, v)) =>
                /\ count' = count
                /\ size' = size
                /\ ~call'.threw
                /\ Len(buckets') = Len(buckets)
                /\ keysT(Table') = keysT(Table)
                /\ getItemT(Table', k).ret = v]_vars

\* C7 witness: the value of a stored key has been replaced by another one
C7_Witness ==
    /\ call.op = "setItem" /\ call.found
    /\ \E k \in Keys : getItemT(Table, k).ret = 2
    /\ count = 2

\* C8: a call of getItem leaves size, count and the bucket array (its length
\* and the contents of every bucket) unchanged.
C8_GetItemNoSideEffect ==
    [][call'.op = "getItem" =>
         (size' = size /\ count' = count /\ buckets' = buckets)]_vars

\* C9: a setItem that inserts a new key leaves the table with twice the size
\* (and that many buckets) when the incremented count over the size exceeds
\* 0.70, and with the size unchanged otherwise; so the 3rd distinct key on a
\* fresh table of size 4 leaves size 8.
C9_GrowthTrigger ==
    (call.op = "setItem" /\ ~call.found) =>
        IF 10 * (call.preCount + 1) > 7 * call.preSize
          THEN size = 2 * call.preSize /\ Len(buckets) = size
          ELSE size = call.preSize

\* C9 witness: the 3rd distinct key of a fresh table has grown it from 4 to 8
C9_Witness ==
    /\ call.op = "setItem" /\ ~call.found /\ ~call.threw
    /\ call.preSize = 4 /\ call.preCount = 2
    /\ size = 8 /\ count = 3

\* C10: a removeItem that removes an entry leaves the size ceil(size * 0.5)
\* when the decremented count over the size is below 0.40 and size > 10, and
\* leaves the size unchanged otherwise.
C10_ShrinkTrigger ==
    (call.op = "removeItem" /\ call.found) =>
        IF 10 * (call.preCount - 1) < 4 * call.preSize /\ call.preSize > 10
          THEN size = (call.preSize + 1) \div 2
          ELSE size = call.preSize

\* C11: a rebuild never triggers another resize: the grow check run by the
\* re-insertions of a rebuild never fires, so every setItem and removeItem
\* runs #resize at most once and no resize undoes the previous one.
C11_SingleRebuild == call.resizes <= 1

\* C12: in every state between public calls the bucket array has exactly
\* `size` buckets, none of them missing, and every stored entry (k, v) lies
\* in the bucket at index hash(k) mod size for the current size.
C12_ShapeAndPlacement ==
    /\ Len(buckets) = size
    /\ \A i \in 1..Len(buckets) :
          /\ ~buckets[i].hole
          /\ \A j \in 1..Len(buckets[i].items) :
                i = BucketIndex(Table, buckets[i].items[j][1])

\* C13: in every state between public calls, also after nested rebuilds,
\* count is the total number of entries over all buckets.
C13_CountIsEntries == count = Len(Flat(buckets, 1))

\* C13 witness: a removeItem has rebuilt the table twice (13 -> 7 -> 14) and
\* left five entries
C13_Witness ==
    /\ call.op = "removeItem" /\ call.resizes = 2 /\ ~call.threw
    /\ size = 14 /\ count = 5

\* C14: in every reachable state no two entries of the table, in the same
\* bucket or in different buckets, have the same key.
C14_KeysUnique ==
    \A i1, i2 \in 1..Len(buckets) :
       \A j1 \in 1..Len(buckets[i1].items), j2 \in 1..Len(buckets[i2].items) :
          (buckets[i1].items[j1][1] = buckets[i2].items[j2][1])
             => (i1 = i2 /\ j1 = j2)

\* C14 witness: a stored key has been set again after the table was rebuilt
\* at another size, and the table holds four entries
C14_Witness ==
    /\ call.op = "setItem" /\ call.found /\ ~call.threw
    /\ size = 8 /\ count = 4

\* C15: for all keys k # k2, getItem(k2) returns the same value before and
\* after setItem(k, v) and before and after removeItem(k), also when the call
\* rebuilds the table.
C15_OtherKeysUntouched ==
    [][call'.op \in {"setItem", "removeItem"} =>
         \A k \in Keys :
            ((\E v \in Values : setItem(k, v)) \/ removeItem(k)) =>
                \A k2 \in Keys \ {k} :
                   getItemT(Table', k2).ret = getItemT(Table, k2).ret]_vars

Digits32(h) == <<h[2] % 256, h[2] \div 256, h[1] % 256, h[1] \div 256>>

\* (h * 16777619) mod 2^32 with the product taken exactly
MulPrimeExact(h) ==
    <<MulDigits(Digits32(h), FNV_PRIME, 0, 0)[3]
        + 256 * MulDigits(Digits32(h), FNV_PRIME, 0, 0)[4],
      MulDigits(Digits32(h), FNV_PRIME, 0, 0)[1]
        + 256 * MulDigits(Digits32(h), FNV_PRIME, 0, 0)[2]>>

RECURSIVE Fnv1aLoop(_, _, _)
\* 32-bit FNV-1a from code unit i (1-based) on
Fnv1aLoop(key, i, h) ==
    IF i > Len(key) THEN h
    ELSE Fnv1aLoop(key, i + 1, MulPrimeExact(XorUnit(h, key[i])))

\* 32-bit FNV-1a of every key of the model: 3826002220 for "a"
Fnv1aOf ==
    [ k \in { KeyUniverse[i] : i \in 1..Len(KeyUniverse) } |->
        Fnv1aLoop(k, 1, FNV_OFFSET_BASIS) ]

\* C17: the hasher computes 32-bit FNV-1a exactly and the bucket index is
\* that value mod size: every stored entry lies in the bucket at index
\* FNV-1a(key) mod size.
C17_ExactFnv1a ==
    \A i \in 1..Len(buckets) :
       \A j \in 1..Len(buckets[i].items) :
          i = Mod32(Fnv1aOf[buckets[i].items[j][1]], size) + 1

\* C18: for a table constructed with a positive size, whenever setItem,
\* removeItem or clear has returned, count/size <= 0.70, also after a shrink
\* rebuild and after nested rebuilds.
C18_LoadFactorBound ==
    (/\ size > 0
     /\ call.op \in {"setItem", "removeItem", "clear"}
     /\ ~call.threw)
        => 10 * count <= 7 * size

\* C18 witness: a removeItem has shrunk a table of size 13 to 7 with 5
\* entries (5/7 > 0.70) and grown it again to 14 before it returned
C18_Witness ==
    /\ call.op = "removeItem" /\ ~call.threw /\ call.resizes = 2
    /\ call.preSize = 13 /\ size = 14 /\ count = 5
    /\ 10 * count <= 7 * size

\* C19: for a CentralisedStorage backed by a Hashmap, after any sequence of
\* facade calls the key cache is exactly the set of keys stored in the
\* Hashmap, so the facade's keyExists(k), getItem(k) and keys() agree with
\* the Hashmap's for every key k.
C19_CacheMirrorsBackend ==
    /\ keyCache = KeySet
    /\ \A k \in Keys :
          /\ (k \in keyCache) = keyExistsT(Table, k).ret
          /\ CentralisedStorage_getItemRet(k) = getItemT(Table, k).ret
=============================================================================
